---- MODULE Spec2Model ----
(***************************************************************************)
(* First-Search-AI: the chat page's task dispatcher (ChatPage.tsx) and the *)
(* sidebar's credential / model catalog logic (Sidebar.tsx).               *)
(*                                                                         *)
(* Strings that the code inspects (trim, includes, startsWith, split,      *)
(* substring) are sequences of one-character strings.  A text built from a *)
(* template literal is the concatenation of its literal pieces (each one   *)
(* element) and the interpolated character sequences.                      *)
(***************************************************************************)
EXTENDS Integers, Sequences, FiniteSets, TLC

VARIABLES
    \* ---- ChatPage.tsx: component state
    messages,        \* the transcript (useState<Message[]>)
    inputMessage,    \* the text input
    isLoading,       \* the loading flag
    selectedImage,   \* <<>> (null) or <<file>>
    imagePreview,    \* NoUrl (null) or an object URL
    \* ---- ChatPage.tsx: props handed down by the parent
    isVerified, selectedModel, selectedPipeline,
    \* ---- ChatPage.tsx: environment
    inflight,        \* handlers suspended on their inference call
    nextUrl,         \* the next URL that URL.createObjectURL returns
    revoked,         \* the URLs handed to URL.revokeObjectURL
    \* ---- Sidebar.tsx: component state
    apiKey, isApiVerified, isVerifying, selectedTask, sidebarModel,
    pipelineModels, isLoadingModels, selectedModelInfo, isFetchingModelInfo,
    \* ---- Sidebar.tsx: environment
    sessionStorage,  \* the persisted side-channel
    parent,          \* what the callbacks have told the parent
    verifying,       \* verifyApiKey runs suspended on a fetch
    infoFetches,     \* fetchModelInfo runs suspended on their fetch
    listing,         \* <<>>, or <<the body of a listing response in flight>>
    rawCardText,     \* <<>>, or <<the README text that fetchModelInfo received>>
    cardData         \* <<>> (null), or <<what parseModelCard returned>>

chatVars == <<messages, inputMessage, isLoading, selectedImage, imagePreview,
              isVerified, selectedModel, selectedPipeline, inflight, nextUrl,
              revoked>>
cardVars == <<rawCardText, cardData>>
sideVars == <<apiKey, isApiVerified, isVerifying, selectedTask, sidebarModel,
              pipelineModels, isLoadingModels, selectedModelInfo,
              isFetchingModelInfo, sessionStorage, parent, verifying,
              infoFetches, listing, rawCardText, cardData>>
vars == <<chatVars, sideVars>>

(***************************************************************************)
(* Bounds of the model.                                                    *)
(***************************************************************************)
MaxMessages == 4     \* transcript entries
MaxUrls == 2         \* object URLs created
MaxChunks == 2       \* chunks of one chat-completion stream
MaxListing == 3      \* entries of a model listing response
MaxInfoFetches == 1  \* model detail fetches in flight
MaxFragments == 3    \* pieces of a README text

(***************************************************************************)
(* String helpers (JavaScript String.prototype).                           *)
(***************************************************************************)
Min(a, b) == IF a < b THEN a ELSE b

IsSpace(c) == c \in {" ", "\n", "\t"}

\* s.includes(p)
Includes(s, p) ==
    \E i \in 0..(Len(s) - Len(p)) : SubSeq(s, i + 1, i + Len(p)) = p

\* s.startsWith(p)
StartsWith(s, p) == Len(s) >= Len(p) /\ SubSeq(s, 1, Len(p)) = p

\* s.substring(a, b)
Substring(s, a, b) == SubSeq(s, a + 1, Min(b, Len(s)))

RECURSIVE TrimStart(_)
TrimStart(s) == IF s # <<>> /\ IsSpace(Head(s)) THEN TrimStart(Tail(s)) ELSE s

RECURSIVE TrimEnd(_)
TrimEnd(s) ==
    IF s # <<>> /\ IsSpace(s[Len(s)]) THEN TrimEnd(SubSeq(s, 1, Len(s) - 1))
    ELSE s

\* s.trim()
Trim(s) == TrimEnd(TrimStart(s))

\* s.split("\n")[0]
FirstLine(s) ==
    LET breaks == {i \in 1..Len(s) : s[i] = "\n"}
    IN  IF breaks = {} THEN s
        ELSE SubSeq(s, 1, (CHOOSE i \in breaks : \A j \in breaks : i <= j) - 1)

\* `${text.substring(0, n)}${text.length > n ? "..." : ""}`
Ellipsis(text, n) ==
    Substring(text, 0, n) \o (IF Len(text) > n THEN <<"...">> ELSE <<>>)

(***************************************************************************)
(* ChatPage.tsx: values.                                                   *)
(***************************************************************************)
NoUrl == 0
NoModel == <<>>      \* null or "": `!selectedModel`
NoPipeline == ""     \* null: `!selectedPipeline`

SupportedPipelines ==
    {"text-generation", "text-to-image", "text-classification",
     "summarization", "image-classification", "text-to-speech"}

\* interface Message (the timestamp, which nothing reads back, is left out);
\* an absent optional field is NoUrl or <<>>, a present list is <<list>>
Message(id, text, isUser) ==
    [id |-> id, text |-> text, isUser |-> isUser, imageUrl |-> NoUrl,
     audioUrl |-> NoUrl, classificationData |-> <<>>,
     imageClassificationData |-> <<>>]

WelcomeText ==
    <<"Hello! Welcome to First Search AI Assistant. How can I assist you today?">>
SelectImageText == <<"Please select an image for classification.">>
UnsupportedText ==
    <<"Currently only text generation, text-to-image, text-classification, image-classification, text-to-speech and summarization models are working. We will add support for other pipelines in upcoming versions.">>
InvalidFileText == <<"Please select a valid image file (JPEG, PNG, etc.).">>
CreditsText ==
    <<"You have exceeded your monthly Hugging Face credits. Please upgrade to PRO or wait until your credits reset.">>
ProcessingErrorText ==
    <<"Sorry, I encountered an error while processing your request. Please try again.">>
AnalyzingImageErrorText ==
    <<"Sorry, I encountered an error while analyzing the image. Please try again.">>

\* `Sorry, I encountered an error while ${action}. Please try again.`
GenericErrorText(action) ==
    <<"Sorry, I encountered an error while ", action, ". Please try again.">>

SubscribeToPro ==
    <<"S", "u", "b", "s", "c", "r", "i", "b", "e", " ", "t", "o", " ", "P", "R", "O">>
ExceededCredits ==
    <<"e", "x", "c", "e", "e", "d", "e", "d", " ", "y", "o", "u", "r", " ",
      "m", "o", "n", "t", "h", "l", "y", " ", "i", "n", "c", "l", "u", "d",
      "e", "d", " ", "c", "r", "e", "d", "i", "t", "s">>
TextToSpeechWord ==
    <<"t", "e", "x", "t", "-", "t", "o", "-", "s", "p", "e", "e", "c", "h">>
SpeechWord == <<"s", "p", "e", "e", "c", "h">>
ImageSlash == <<"i", "m", "a", "g", "e", "/">>

SpeechEchoLen == 100
SummaryEchoLen == 150
ErrorEchoLen == 100

\* the ids of a dispatch's entries, from the length the handler's render saw
FirstId(len) == len + 1
SecondId(len) == len + 2

\* setMessages((prev) => [...prev, m])
AppendMessage(prev, m) == Append(prev, m)

\* prev.filter((msg) => msg.id !== id)
RECURSIVE FilterOut(_, _)
FilterOut(prev, id) ==
    IF prev = <<>> THEN <<>>
    ELSE (IF Head(prev).id # id THEN <<Head(prev)>> ELSE <<>>)
         \o FilterOut(Tail(prev), id)

(***************************************************************************)
(* ChatPage.tsx: error texts.                                              *)
(***************************************************************************)
\* a rejection of the inference client: an Error (or an object with a message)
\* carrying `message`, or any other thrown value, whose String() is `value`

ThrownError(kind, text) ==
    [kind |-> kind,
     message |-> IF kind = "Error" THEN text ELSE <<>>,
     value |-> IF kind = "Error" THEN <<"E", "r", "r", "o", "r">> ELSE text]

getErrorMessage(error) ==
    IF error.kind = "Error" THEN error.message ELSE error.value

\* a faulty variant: only the "exceeded your monthly included credits" signature counts
isCreditLimitError_OneSignature(errorMessage) ==
    Includes(errorMessage, ExceededCredits)

isCreditLimitError(errorMessage) ==
    \/ Includes(errorMessage, ExceededCredits)
    \/ Includes(errorMessage, SubscribeToPro)

\* the text handleStreamingError puts in the entry
StreamingErrorText(error) ==
    IF isCreditLimitError(getErrorMessage(error)) THEN CreditsText
    ELSE ProcessingErrorText

\* a faulty variant: every failure without a credit signature echoes the error
PipelineErrorText_AlwaysEcho(error, action) ==
    LET errorMessageString == getErrorMessage(error)
        relevantError ==
            IF FirstLine(errorMessageString) # <<>>
            THEN FirstLine(errorMessageString) ELSE errorMessageString
    IN  IF isCreditLimitError(errorMessageString) THEN CreditsText
        ELSE <<"Text-to-speech error: ">> \o Ellipsis(relevantError, ErrorEchoLen)

\* the text handlePipelineError puts in the entry
PipelineErrorText(error, action) ==
    LET errorMessageString == getErrorMessage(error)
        relevantError ==
            IF FirstLine(errorMessageString) # <<>>
            THEN FirstLine(errorMessageString) ELSE errorMessageString
    IN  IF isCreditLimitError(errorMessageString) THEN CreditsText
        ELSE IF \/ Includes(errorMessageString, TextToSpeechWord)
                \/ Includes(errorMessageString, SpeechWord)
        THEN <<"Text-to-speech error: ">> \o Ellipsis(relevantError, ErrorEchoLen)
        ELSE GenericErrorText(action)

\* the text the catch block of handleImageClassification puts in the entry
ImageClassificationErrorText(error) ==
    IF isCreditLimitError(getErrorMessage(error)) THEN CreditsText
    ELSE AnalyzingImageErrorText

\* the `action` each handler passes to handlePipelineError
PipelineAction(kind) ==
    CASE kind = "text-to-speech" -> "generating speech"
      [] kind = "text-to-image" -> "generating the image"
      [] kind = "text-classification" -> "analyzing the text"
      [] kind = "summarization" -> "summarizing the text"

\* the text of a failed dispatch's assistant entry, by handler
ErrorTextOf(kind, error) ==
    CASE kind = "text-generation" -> StreamingErrorText(error)
      [] kind = "image-classification" -> ImageClassificationErrorText(error)
      [] OTHER -> PipelineErrorText(error, PipelineAction(kind))

(***************************************************************************)
(* ChatPage.tsx: the texts of the handlers' placeholders and results.      *)
(***************************************************************************)
LoadingText(kind, text) ==
    CASE kind = "text-generation" -> <<>>
      [] kind = "text-to-image" ->
            <<"Generating image for: \"">> \o text \o <<"\"...">>
      [] kind = "text-classification" ->
            <<"Analyzing text classification for: \"">> \o text \o <<"\"...">>
      [] kind = "summarization" ->
            <<"Summarizing text: \"">> \o Ellipsis(text, SpeechEchoLen) \o <<"\"...">>
      [] kind = "text-to-speech" ->
            <<"Generating speech for: \"">> \o Ellipsis(text, SpeechEchoLen) \o <<"\"...">>
      [] kind = "image-classification" -> <<"Analyzing image...">>

SuccessText(kind, text, summary) ==
    CASE kind = "text-to-image" ->
            <<"Generated image for: \"">> \o text \o <<"\"">>
      [] kind = "text-classification" ->
            <<"Text classification results for: \"">> \o text \o <<"\"">>
      [] kind = "summarization" ->
            <<"**Summary:**\n\n">> \o summary \o <<"\n\n---\n*Original text: \"">>
            \o Ellipsis(text, SummaryEchoLen) \o <<"\"*">>
      [] kind = "text-to-speech" ->
            <<"Generated speech for: \"">> \o Ellipsis(text, SpeechEchoLen) \o <<"\"">>
      [] kind = "image-classification" -> <<"Image classification completed">>

(***************************************************************************)
(* The inputs the environment offers.                                      *)
(***************************************************************************)
Hi == <<"h", "i">>
Blank == <<" ", "\n">>
Inputs == {<<>>, Blank, Hi}

Gpt2 == <<"g", "p", "t", "2">>
\* the identifier named in handleTextToSpeech
Kokoro ==
    <<"h", "e", "x", "g", "r", "a", "d", "/", "K", "o", "k", "o", "r", "o",
      "-", "8", "2", "M">>
\* the models the parent may hand down, among them one whose identifier
\* continues that of Kokoro
Models == {NoModel, Gpt2, Kokoro, Kokoro \o <<"-", "z", "h">>}
Pipelines == SupportedPipelines \cup {NoPipeline, "translation"}

PngFile == [type |-> <<"i", "m", "a", "g", "e", "/", "p", "n", "g">>]
TextFile == [type |-> <<"t", "e", "x", "t", "/", "p", "l", "a", "i", "n">>]
Files == {PngFile, TextFile}

Boom == <<"b", "o", "o", "m">>
\* a one-line message about speech, one character longer than the echo
LongSpeech == SpeechWord \o [i \in 1..(ErrorEchoLen + 1 - Len(SpeechWord)) |-> "x"]
ErrorTexts ==
    {Boom, LongSpeech,
     SubscribeToPro \o <<"\n">> \o SpeechWord,
     Boom \o <<" ">> \o ExceededCredits,
     SpeechWord \o <<" ">> \o Boom,
     <<"\n">> \o TextToSpeechWord}
\* Error objects with each text, and two thrown values that are not Errors
Errors ==
    {ThrownError("Error", t) : t \in ErrorTexts}
    \cup {ThrownError("other", Boom),
          ThrownError("other", SubscribeToPro \o <<"\n">> \o SpeechWord)}

Label(l, sc) == [label |-> l, score |-> sc]
ClassificationResults ==
    {<<Label("POSITIVE", 90), Label("NEGATIVE", 10)>>,
     <<Label("NEGATIVE", 10), Label("POSITIVE", 90)>>}

\* a faulty variant: the chart lists the lowest score first
sortedData_Ascending(data) ==
    LET n == Len(data)
        rank(i) == 1 + Cardinality({j \in 1..n :
                          \/ data[j].score < data[i].score
                          \/ data[j].score = data[i].score /\ j < i})
    IN  [r \in 1..n |-> data[CHOOSE i \in 1..n : rank(i) = r]]

\* ClassificationChart: [...data].sort((a, b) => b.score - a.score)
sortedData(data) ==
    LET n == Len(data)
        rank(i) == 1 + Cardinality({j \in 1..n :
                          \/ data[j].score > data[i].score
                          \/ data[j].score = data[i].score /\ j < i})
    IN  [r \in 1..n |-> data[CHOOSE i \in 1..n : rank(i) = r]]

Summaries == {<<"s", "u", "m">>}
ChunkContents == {<<>>, <<"a">>, <<"b">>}

(***************************************************************************)
(* ChatPage.tsx: the effect that releases object URLs.                     *)
(***************************************************************************)
AudioUrls(msgs) == {msgs[i].audioUrl : i \in 1..Len(msgs)} \ {NoUrl}

\* the cleanup of the effect on [imagePreview, messages], which runs with the
\* values of the render that is being replaced
EffectCleanup == ({imagePreview} \ {NoUrl}) \cup AudioUrls(messages)

\* a render that follows setMessages / setImagePreview: `explicit` are the
\* URLs the handler itself revoked
Rerender(explicit) == revoked' = revoked \cup explicit \cup EffectCleanup

(***************************************************************************)
(* ChatPage.tsx: the parent hands down new props.                          *)
(***************************************************************************)
SetVerified(v) ==
    /\ v # isVerified
    /\ isVerified' = v
    /\ UNCHANGED <<messages, inputMessage, isLoading, selectedImage,
                   imagePreview, selectedModel, selectedPipeline, inflight,
                   nextUrl, revoked, sideVars>>

SetSelectedModel(m) ==
    /\ m # selectedModel
    /\ selectedModel' = m
    /\ UNCHANGED <<messages, inputMessage, isLoading, selectedImage,
                   imagePreview, isVerified, selectedPipeline, inflight,
                   nextUrl, revoked, sideVars>>

SetSelectedPipeline(p) ==
    /\ p # selectedPipeline
    /\ selectedPipeline' = p
    /\ UNCHANGED <<messages, inputMessage, isLoading, selectedImage,
                   imagePreview, isVerified, selectedModel, inflight,
                   nextUrl, revoked, sideVars>>

\* onChange of the textarea
SetInputMessage(s) ==
    /\ selectedPipeline # "image-classification"
    /\ ~(isLoading \/ ~isVerified \/ selectedModel = NoModel)
    /\ s # inputMessage
    /\ inputMessage' = s
    /\ UNCHANGED <<messages, isLoading, selectedImage, imagePreview,
                   isVerified, selectedModel, selectedPipeline, inflight,
                   nextUrl, revoked, sideVars>>

(***************************************************************************)
(* ChatPage.tsx: handleSendMessage, up to the handler's inference call.    *)
(***************************************************************************)
\* a faulty variant: the controls stay enabled while a dispatch is pending
SubmitDisabled_Never == FALSE

\* The submit button and the textarea (whose Enter key submits) are both
\* disabled while a dispatch is pending.  The button's other conditions
\* (!isVerified, !selectedModel, no image, blank input) repeat the guards of
\* handleSendMessage itself; they are not made a restriction here, so that a
\* submit event reaches the handler in every state and its guards decide.
SubmitDisabled == isLoading

\* a faulty variant: the input is compared without trim()
TextGuardFails_NoTrim ==
    \/ inputMessage = <<>>
    \/ ~isVerified
    \/ selectedModel = NoModel
    \/ selectedPipeline = NoPipeline

\* `inputMessage.trim() === "" || !isVerified || !selectedModel || !selectedPipeline`
TextGuardFails ==
    \/ Trim(inputMessage) = <<>>
    \/ ~isVerified
    \/ selectedModel = NoModel
    \/ selectedPipeline = NoPipeline

\* `!isVerified || !selectedModel` of handleImageClassification
ImageGuardFails == ~isVerified \/ selectedModel = NoModel

\* the chain of `selectedPipeline !== ...`
IsSupported(p) == p \in SupportedPipelines

\* `selectedModel?.includes("hexgrad/Kokoro-82M") ? "replicate" : "auto"`
Provider(model) == IF Includes(model, Kokoro) THEN "replicate" ELSE "auto"

\* a handler suspended on its inference call, with what its closure holds
Dispatch(kind, botId, text, preview) ==
    [kind |-> kind, botId |-> botId, text |-> text, preview |-> preview,
     fullResponse |-> <<>>, chunks |-> 0,
     provider |-> IF kind = "text-to-speech" THEN Provider(selectedModel)
                  ELSE "none"]

\* a faulty variant: the missing image is not noticed and the dispatch goes ahead
RejectNoImage_Dispatches ==
    LET loadingMessage ==
            Message(SecondId(Len(messages)),
                    LoadingText("image-classification", <<>>), FALSE)
    IN  /\ messages' = AppendMessage(
                           AppendMessage(messages,
                               Message(FirstId(Len(messages)),
                                       <<"Image uploaded for classification">>,
                                       TRUE)),
                           loadingMessage)
        /\ isLoading' = TRUE
        /\ inflight' = Append(inflight,
                           Dispatch("image-classification", loadingMessage.id,
                                    <<>>, imagePreview))
        /\ Rerender({})
        /\ UNCHANGED <<inputMessage, selectedImage, imagePreview, nextUrl>>

\* image-classification with no image selected
RejectNoImage ==
    /\ messages' = AppendMessage(messages,
                       Message(FirstId(Len(messages)), SelectImageText, FALSE))
    /\ Rerender({})
    /\ UNCHANGED <<inputMessage, isLoading, selectedImage, imagePreview,
                   inflight, nextUrl>>

\* handleImageClassification up to `await client.imageClassification`
StartImageClassification ==
    LET userMessage ==
            [Message(FirstId(Len(messages)),
                     <<"Image uploaded for classification">>, TRUE)
             EXCEPT !.imageUrl = imagePreview]
        loadingMessage ==
            Message(SecondId(Len(messages)),
                    LoadingText("image-classification", <<>>), FALSE)
    IN  /\ messages' = AppendMessage(AppendMessage(messages, userMessage),
                                     loadingMessage)
        /\ isLoading' = TRUE
        /\ inflight' = Append(inflight,
                           Dispatch("image-classification", loadingMessage.id,
                                    <<>>, imagePreview))
        /\ Rerender({})
        /\ UNCHANGED <<inputMessage, selectedImage, imagePreview, nextUrl>>

\* a faulty variant: the user entry is appended before the tag is checked
RejectUnsupported_AfterUserEntry ==
    /\ messages' = AppendMessage(
                       AppendMessage(messages,
                           Message(FirstId(Len(messages)), inputMessage, TRUE)),
                       Message(SecondId(Len(messages)), UnsupportedText, FALSE))
    /\ inputMessage' = <<>>
    /\ Rerender({})
    /\ UNCHANGED <<isLoading, selectedImage, imagePreview, inflight, nextUrl>>

\* the task tag is none of the six
RejectUnsupported ==
    /\ messages' = AppendMessage(messages,
                       Message(SecondId(Len(messages)), UnsupportedText, FALSE))
    /\ inputMessage' = <<>>
    /\ Rerender({})
    /\ UNCHANGED <<isLoading, selectedImage, imagePreview, inflight, nextUrl>>

\* the user entry, then the handler's placeholder, up to the handler's await
StartTextHandler ==
    LET userMessage == Message(FirstId(Len(messages)), inputMessage, TRUE)
        loadingMessage ==
            Message(SecondId(Len(messages)),
                    LoadingText(selectedPipeline, inputMessage), FALSE)
    IN  /\ messages' = AppendMessage(AppendMessage(messages, userMessage),
                                     loadingMessage)
        /\ inputMessage' = <<>>
        /\ isLoading' = TRUE
        /\ inflight' = Append(inflight,
                           Dispatch(selectedPipeline, loadingMessage.id,
                                    inputMessage, imagePreview))
        /\ Rerender({})
        /\ UNCHANGED <<selectedImage, imagePreview, nextUrl>>

NoOp ==
    UNCHANGED <<messages, inputMessage, isLoading, selectedImage,
                imagePreview, inflight, nextUrl, revoked>>

\* (the cap on the transcript leaves out the two entries of each pending
\* dispatch)
handleSendMessage ==
    /\ ~SubmitDisabled
    /\ Len(messages) + 2 <= MaxMessages + 2 * Len(inflight)
    /\ IF selectedPipeline = "image-classification"
       THEN IF selectedImage = <<>> THEN RejectNoImage
            ELSE IF ImageGuardFails THEN NoOp
            ELSE StartImageClassification
       ELSE IF TextGuardFails THEN NoOp
            ELSE IF ~IsSupported(selectedPipeline) THEN RejectUnsupported
            ELSE StartTextHandler
    /\ UNCHANGED <<isVerified, selectedModel, selectedPipeline, sideVars>>

(***************************************************************************)
(* ChatPage.tsx: the handlers after their inference call has settled.      *)
(***************************************************************************)
RemoveAt(seq, k) == SubSeq(seq, 1, k - 1) \o SubSeq(seq, k + 1, Len(seq))

PipelineKinds ==
    {"text-to-image", "text-classification", "summarization", "text-to-speech"}

\* a faulty variant: generated speech is stored as image and as audio
Finalized_BothUrls(msg, d, result) ==
    [msg EXCEPT !.text = SuccessText(d.kind, d.text, <<>>),
                !.imageUrl = result,
                !.audioUrl = result]

\* the entry a successful handler puts in place of its placeholder
Finalized(msg, d, result) ==
    CASE d.kind = "text-to-image" ->
            [msg EXCEPT !.text = SuccessText(d.kind, d.text, <<>>),
                        !.imageUrl = result]
      [] d.kind = "text-to-speech" ->
            [msg EXCEPT !.text = SuccessText(d.kind, d.text, <<>>),
                        !.audioUrl = result]
      [] d.kind = "text-classification" ->
            [msg EXCEPT !.text = SuccessText(d.kind, d.text, <<>>),
                        !.classificationData = <<result>>]
      [] d.kind = "summarization" ->
            [msg EXCEPT !.text = SuccessText(d.kind, d.text, result)]
      [] d.kind = "image-classification" ->
            [msg EXCEPT !.text = SuccessText(d.kind, d.text, <<>>),
                        !.imageClassificationData = <<result>>]

\* { ...msg, text: errorMessage }
WithText(msg, text) == [msg EXCEPT !.text = text]

\* prev.map((msg) => msg.id === id ? { ...msg, text } : msg)
MapText(prev, id, text) ==
    [i \in 1..Len(prev) |->
        IF prev[i].id = id THEN WithText(prev[i], text) ELSE prev[i]]

\* prev.map((msg) => msg.id === loadingMessage.id ? { ...msg, <result> } : msg)
MapFinalized(prev, d, result) ==
    [i \in 1..Len(prev) |->
        IF prev[i].id = d.botId THEN Finalized(prev[i], d, result) ELSE prev[i]]

\* handlePipelineError
handlePipelineError(prev, error, messageId, action) ==
    MapText(prev, messageId, PipelineErrorText(error, action))

\* a faulty variant: the placeholder is filtered out and nothing is appended
handleStreamingError_FilterOnly(prev, error, botMessageId) ==
    FilterOut(prev, botMessageId)

\* handleStreamingError
handleStreamingError(prev, error, botMessageId) ==
    Append(FilterOut(prev, botMessageId),
           Message(botMessageId, StreamingErrorText(error), FALSE))

\* textToImage / textToSpeech resolve with a blob
BlobHandlerSucceeds(k) ==
    LET d == inflight[k] IN
    /\ d.kind \in {"text-to-image", "text-to-speech"}
    /\ nextUrl <= MaxUrls
    /\ messages' = MapFinalized(messages, d, nextUrl)
    /\ nextUrl' = nextUrl + 1
    /\ isLoading' = FALSE
    /\ inflight' = RemoveAt(inflight, k)
    /\ Rerender({})
    /\ UNCHANGED <<inputMessage, selectedImage, imagePreview, isVerified,
                   selectedModel, selectedPipeline, sideVars>>

\* textClassification resolves with its label list
TextClassificationSucceeds(k, results) ==
    LET d == inflight[k] IN
    /\ d.kind = "text-classification"
    /\ messages' = MapFinalized(messages, d, results)
    /\ isLoading' = FALSE
    /\ inflight' = RemoveAt(inflight, k)
    /\ Rerender({})
    /\ UNCHANGED <<inputMessage, selectedImage, imagePreview, isVerified,
                   selectedModel, selectedPipeline, nextUrl, sideVars>>

\* summarization resolves with summary_text
SummarizationSucceeds(k, summary) ==
    LET d == inflight[k] IN
    /\ d.kind = "summarization"
    /\ messages' = MapFinalized(messages, d, summary)
    /\ isLoading' = FALSE
    /\ inflight' = RemoveAt(inflight, k)
    /\ Rerender({})
    /\ UNCHANGED <<inputMessage, selectedImage, imagePreview, isVerified,
                   selectedModel, selectedPipeline, nextUrl, sideVars>>

\* a faulty variant: the failure path does not reset the loading flag
PipelineHandlerFails_KeepsLoading(k, error) ==
    LET d == inflight[k] IN
    /\ d.kind \in PipelineKinds
    /\ inflight' = RemoveAt(inflight, k)
    /\ messages' = handlePipelineError(messages, error, d.botId,
                                       PipelineAction(d.kind))
    /\ Rerender({})
    /\ UNCHANGED <<isLoading, inputMessage, selectedImage, imagePreview,
                   isVerified, selectedModel, selectedPipeline, nextUrl,
                   sideVars>>

\* the catch block of the four handlers that call handlePipelineError
PipelineHandlerFails(k, error) ==
    LET d == inflight[k] IN
    /\ d.kind \in PipelineKinds
    /\ inflight' = RemoveAt(inflight, k)
    /\ messages' = handlePipelineError(messages, error, d.botId,
                                       PipelineAction(d.kind))
    /\ isLoading' = FALSE
    /\ Rerender({})
    /\ UNCHANGED <<inputMessage, selectedImage, imagePreview, isVerified,
                   selectedModel, selectedPipeline, nextUrl, sideVars>>

\* a faulty variant: the entry shows the last chunk alone
StreamChunk_LastChunkOnly(k, hasChoices, newContent) ==
    LET d == inflight[k] IN
    /\ d.kind = "text-generation"
    /\ d.chunks < MaxChunks
    /\ IF hasChoices
       THEN /\ messages' = MapText(messages, d.botId, newContent)
            /\ inflight' = [inflight EXCEPT ![k].fullResponse = newContent,
                                            ![k].chunks = d.chunks + 1]
            /\ Rerender({})
       ELSE /\ inflight' = [inflight EXCEPT ![k].chunks = d.chunks + 1]
            /\ UNCHANGED <<messages, revoked>>
    /\ UNCHANGED <<inputMessage, isLoading, selectedImage, imagePreview,
                   isVerified, selectedModel, selectedPipeline, nextUrl,
                   sideVars>>

\* one chunk of the chat-completion stream
StreamChunk(k, hasChoices, newContent) ==
    LET d == inflight[k]
        fullResponse == d.fullResponse \o newContent
    IN
    /\ d.kind = "text-generation"
    /\ d.chunks < MaxChunks
    /\ IF hasChoices
       THEN /\ messages' = MapText(messages, d.botId, fullResponse)
            /\ inflight' = [inflight EXCEPT ![k].fullResponse = fullResponse,
                                            ![k].chunks = d.chunks + 1]
            /\ Rerender({})
       ELSE /\ inflight' = [inflight EXCEPT ![k].chunks = d.chunks + 1]
            /\ UNCHANGED <<messages, revoked>>
    /\ UNCHANGED <<inputMessage, isLoading, selectedImage, imagePreview,
                   isVerified, selectedModel, selectedPipeline, nextUrl,
                   sideVars>>

\* the stream ends
StreamEnds(k) ==
    /\ inflight[k].kind = "text-generation"
    /\ isLoading' = FALSE
    /\ inflight' = RemoveAt(inflight, k)
    /\ UNCHANGED <<messages, inputMessage, selectedImage, imagePreview,
                   isVerified, selectedModel, selectedPipeline, nextUrl,
                   revoked, sideVars>>

\* the stream (or its creation) throws
StreamFails(k, error) ==
    LET d == inflight[k] IN
    /\ d.kind = "text-generation"
    /\ inflight' = RemoveAt(inflight, k)
    /\ messages' = handleStreamingError(messages, error, d.botId)
    /\ isLoading' = FALSE
    /\ Rerender({})
    /\ UNCHANGED <<inputMessage, selectedImage, imagePreview, isVerified,
                   selectedModel, selectedPipeline, nextUrl, sideVars>>

\* imageClassification resolves; clearSelectedImage() of the handler's render
ImageClassificationSucceeds(k, results) ==
    LET d == inflight[k] IN
    /\ d.kind = "image-classification"
    /\ messages' = MapFinalized(messages, d, results)
    /\ selectedImage' = <<>>
    /\ imagePreview' = NoUrl
    /\ isLoading' = FALSE
    /\ inflight' = RemoveAt(inflight, k)
    /\ Rerender({d.preview} \ {NoUrl})
    /\ UNCHANGED <<inputMessage, isVerified, selectedModel, selectedPipeline,
                   nextUrl, sideVars>>

\* the catch block of handleImageClassification
ImageClassificationFails(k, error) ==
    LET d == inflight[k] IN
    /\ d.kind = "image-classification"
    /\ inflight' = RemoveAt(inflight, k)
    /\ messages' = MapText(messages, d.botId, ImageClassificationErrorText(error))
    /\ isLoading' = FALSE
    /\ Rerender({})
    /\ UNCHANGED <<inputMessage, selectedImage, imagePreview, isVerified,
                   selectedModel, selectedPipeline, nextUrl, sideVars>>

(***************************************************************************)
(* ChatPage.tsx: the image picker.                                         *)
(***************************************************************************)
\* the "Select Image" button that opens the file input is rendered
PickerShown == selectedPipeline = "image-classification" /\ selectedImage = <<>>

handleImageSelect(file) ==
    /\ PickerShown
    /\ IF ~StartsWith(file.type, ImageSlash)
       THEN /\ Len(messages) + 1 <= MaxMessages
            /\ messages' = AppendMessage(messages,
                               Message(FirstId(Len(messages)), InvalidFileText, FALSE))
            /\ Rerender({})
            /\ UNCHANGED <<selectedImage, imagePreview, nextUrl>>
       ELSE /\ nextUrl <= MaxUrls
            /\ selectedImage' = <<file>>
            /\ imagePreview' = nextUrl
            /\ nextUrl' = nextUrl + 1
            /\ Rerender({imagePreview} \ {NoUrl})
            /\ UNCHANGED messages
    /\ UNCHANGED <<inputMessage, isLoading, isVerified, selectedModel,
                   selectedPipeline, inflight, sideVars>>

clearSelectedImage ==
    /\ selectedPipeline = "image-classification" /\ selectedImage # <<>>
    /\ selectedImage' = <<>>
    /\ imagePreview' = NoUrl
    /\ Rerender({imagePreview} \ {NoUrl})
    /\ UNCHANGED <<messages, inputMessage, isLoading, isVerified,
                   selectedModel, selectedPipeline, inflight, nextUrl,
                   sideVars>>

(***************************************************************************)
(* Sidebar.tsx: values.                                                    *)
(***************************************************************************)
NoTag == ""          \* an entry without pipeline_tag
NoSelection == ""    \* useState("") of selectedModel
NoInfo == <<>>       \* null of selectedModelInfo

\* the ids of taskTypes
TaskTypes ==
    <<"text-generation", "text2text-generation", "text-classification",
      "question-answering", "summarization", "translation", "conversational",
      "image-classification", "image-to-text", "text-to-image",
      "audio-classification", "automatic-speech-recognition",
      "text-to-speech">>

EmptyCatalog == [t \in {} |-> <<>>]

Model(id, name, tag) == [id |-> id, name |-> name, pipeline_tag |-> tag]

getDefaultModels ==
    [t \in {"text-generation", "text-classification", "question-answering"} |->
        CASE t = "text-generation" ->
                <<Model("gpt2", "GPT-2", NoTag),
                  Model("facebook/opt-350m", "OPT-350M", NoTag)>>
          [] t = "text-classification" ->
                <<Model("distilbert-base-uncased-finetuned-sst-2-english",
                        "DistilBERT SST-2", NoTag)>>
          [] t = "question-answering" ->
                <<Model("distilbert-base-cased-distilled-squad",
                        "DistilBERT SQuAD", NoTag)>>]

\* organizedModels[tag] of a plain object
Lookup(catalog, tag) == IF tag \in DOMAIN catalog THEN catalog[tag] ELSE <<>>

\* a faulty variant: a model is put in front of its group
RECURSIVE Organize_Unshift(_, _)
Organize_Unshift(models, organizedModels) ==
    IF models = <<>> THEN organizedModels
    ELSE LET model == Head(models)
             pipelineTag == model.pipeline_tag
             started == IF pipelineTag \in DOMAIN organizedModels
                        THEN organizedModels
                        ELSE organizedModels @@ (pipelineTag :> <<>>)
         IN  IF pipelineTag # NoTag
             THEN Organize_Unshift(Tail(models),
                      [started EXCEPT ![pipelineTag] =
                          <<Model(model.id, model.id, pipelineTag)>> \o @])
             ELSE Organize_Unshift(Tail(models), organizedModels)

\* models.forEach(...) of fetchHuggingFaceModels: group by pipeline_tag
RECURSIVE Organize(_, _)
Organize(models, organizedModels) ==
    IF models = <<>> THEN organizedModels
    ELSE LET model == Head(models)
             pipelineTag == model.pipeline_tag
             started == IF pipelineTag \in DOMAIN organizedModels
                        THEN organizedModels
                        ELSE organizedModels @@ (pipelineTag :> <<>>)
         IN  IF pipelineTag # NoTag
             THEN Organize(Tail(models),
                      [started EXCEPT ![pipelineTag] =
                          Append(@, Model(model.id, model.id, pipelineTag))])
             ELSE Organize(Tail(models), organizedModels)

\* const availableModels = isApiVerified ? pipelineModels : getDefaultModels()
availableModels == IF isApiVerified THEN pipelineModels ELSE getDefaultModels

\* getCurrentModels
getCurrentModels == Lookup(pipelineModels, selectedTask)

(***************************************************************************)
(* Sidebar.tsx: the inputs the environment offers.                         *)
(***************************************************************************)
Key1 == <<"k", "1">>
Key2 == <<"k", "2">>
KeyTexts == {<<>>, <<" ">>, Key1, Key2}

ModelIds == {"a", "b"}
WideModelIds == {"a", "b", "c"}
ListingTags == {NoTag, "text-generation", "text-classification"}

\* the listing responses: up to MaxListing entries with distinct ids
ListingsOver(ids) ==
    UNION {{r \in [1..n -> [id : ids, pipeline_tag : ListingTags]] :
               \A i, j \in 1..n : i # j => r[i].id # r[j].id} :
           n \in 0..Min(MaxListing, Cardinality(ids))}
Listings == ListingsOver(ModelIds)
WideListings == ListingsOver(WideModelIds)

\* sessionStorage: an item is <<>> (absent) or <<its value>>
NoStorage == [hf_api_key |-> <<>>, hf_api_verified |-> <<>>]

(***************************************************************************)
(* Sidebar.tsx: the effects that follow a render.                          *)
(***************************************************************************)
\* "Notify parent when model changes" / "when pipeline/task changes"; `told`
\* is the parent record after the handler's own callbacks
NotifyParent(told) ==
    parent' = [told EXCEPT !.model = sidebarModel', !.pipeline = selectedTask']

\* "Update model info when selected model changes": the effect on
\* [selectedModel, isApiVerified, fetchModelInfo], and fetchModelInfo up to
\* its first await; `info` is selectedModelInfo as the handler left it
UpdateModelInfo(info) ==
    IF <<sidebarModel', isApiVerified', apiKey'>>
           = <<sidebarModel, isApiVerified, apiKey>>
    THEN /\ selectedModelInfo' = info
         /\ UNCHANGED <<isFetchingModelInfo, infoFetches>>
    ELSE IF sidebarModel' # NoSelection /\ isApiVerified'
         THEN IF apiKey' = <<>>
              THEN /\ selectedModelInfo' = NoInfo
                   /\ UNCHANGED <<isFetchingModelInfo, infoFetches>>
              ELSE /\ Len(infoFetches) < MaxInfoFetches
                   /\ selectedModelInfo' = info
                   /\ isFetchingModelInfo' = TRUE
                   /\ infoFetches' = Append(infoFetches, sidebarModel')
         ELSE /\ selectedModelInfo' = NoInfo
              /\ UNCHANGED <<isFetchingModelInfo, infoFetches>>

\* a faulty variant: the change of the credential text keeps the catalog
handleApiKeyChange_KeepsCatalog(value) ==
    /\ value # apiKey
    /\ apiKey' = value
    /\ IF isApiVerified
       THEN /\ isApiVerified' = FALSE
            /\ sidebarModel' = NoSelection
       ELSE UNCHANGED <<isApiVerified, sidebarModel>>
    /\ UNCHANGED <<selectedTask, pipelineModels>>
    /\ NotifyParent(IF isApiVerified THEN [parent EXCEPT !.model = NoSelection]
                    ELSE parent)
    /\ UpdateModelInfo(IF isApiVerified THEN NoInfo ELSE selectedModelInfo)
    /\ UNCHANGED <<isVerifying, isLoadingModels, sessionStorage, verifying,
                   listing, cardVars, chatVars>>

(***************************************************************************)
(* Sidebar.tsx: the credential.                                            *)
(***************************************************************************)
handleApiKeyChange(value) ==
    /\ value # apiKey
    /\ apiKey' = value
    /\ IF isApiVerified
       THEN /\ isApiVerified' = FALSE
            /\ pipelineModels' = EmptyCatalog
            /\ sidebarModel' = NoSelection
       ELSE UNCHANGED <<isApiVerified, pipelineModels, sidebarModel>>
    /\ UNCHANGED selectedTask
    /\ NotifyParent(IF isApiVerified THEN [parent EXCEPT !.model = NoSelection]
                    ELSE parent)
    /\ UpdateModelInfo(IF isApiVerified THEN NoInfo ELSE selectedModelInfo)
    /\ UNCHANGED <<isVerifying, isLoadingModels, sessionStorage, verifying,
                   listing, cardVars, chatVars>>

\* verifyApiKey up to `await fetch(whoami-v2)`; the run keeps the values of
\* the render it started in
verifyApiKey ==
    /\ ~(Trim(apiKey) = <<>> \/ isVerifying)
    /\ isVerifying' = TRUE
    /\ verifying' = Append(verifying,
                        [stage |-> "whoami", caller |-> "verifyApiKey",
                         token |-> apiKey, isApiVerified |-> isApiVerified,
                         selectedTask |-> selectedTask,
                         selectedModel |-> sidebarModel])
    /\ UNCHANGED <<apiKey, isApiVerified, selectedTask, sidebarModel,
                   pipelineModels, isLoadingModels, selectedModelInfo,
                   isFetchingModelInfo, sessionStorage, parent, infoFetches,
                   listing, cardVars, chatVars>>

\* the identity endpoint answers ok: onVerify / onSetApiKey, then
\* fetchHuggingFaceModels up to its fetch
WhoamiOk(k) ==
    LET run == verifying[k] IN
    /\ run.stage = "whoami"
    /\ parent' = IF ~run.isApiVerified
                 THEN [parent EXCEPT !.verified = TRUE]
                 ELSE parent
    /\ isLoadingModels' = TRUE
    /\ verifying' = [verifying EXCEPT ![k].stage = "models"]
    /\ UNCHANGED <<apiKey, isApiVerified, isVerifying, selectedTask,
                   sidebarModel, pipelineModels, selectedModelInfo,
                   isFetchingModelInfo, sessionStorage, infoFetches, listing, cardVars,
                   chatVars>>

\* the identity endpoint rejects the token, or the fetch throws
WhoamiFails(k) ==
    /\ verifying[k].stage = "whoami"
    /\ isApiVerified' = FALSE
    /\ sessionStorage' = NoStorage
    /\ isVerifying' = FALSE
    /\ verifying' = RemoveAt(verifying, k)
    /\ UNCHANGED <<apiKey, selectedTask, sidebarModel, pipelineModels,
                   isLoadingModels, parent, listing, cardVars>>
    /\ UpdateModelInfo(selectedModelInfo)
    /\ UNCHANGED chatVars

\* a faulty variant: the groups of the response are added to the catalog
ModelsOk_Merges(k, models) ==
    LET run == verifying[k]
        organizedModels == Organize(models, pipelineModels)
        setDefault == /\ Lookup(organizedModels, run.selectedTask) # <<>>
                      /\ run.selectedModel = NoSelection
    IN
    /\ run.stage = "models"
    /\ pipelineModels' = organizedModels
    /\ sidebarModel' = IF setDefault
                       THEN Lookup(organizedModels, run.selectedTask)[1].id
                       ELSE sidebarModel
    /\ isLoadingModels' = FALSE
    /\ IF run.caller = "verifyApiKey"
       THEN /\ isApiVerified' = TRUE
            /\ sessionStorage' = [hf_api_key |-> <<run.token>>,
                                  hf_api_verified |-> <<"true">>]
            /\ isVerifying' = FALSE
       ELSE UNCHANGED <<isApiVerified, sessionStorage, isVerifying>>
    /\ verifying' = RemoveAt(verifying, k)
    /\ UNCHANGED <<apiKey, selectedTask, listing, cardVars>>
    /\ NotifyParent(parent)
    /\ UpdateModelInfo(selectedModelInfo)
    /\ UNCHANGED chatVars

\* the listing answers ok: group, default model, and for a run of
\* verifyApiKey the rest of it
ModelsOk(k, models) ==
    LET run == verifying[k]
        organizedModels == Organize(models, EmptyCatalog)
        setDefault == /\ Lookup(organizedModels, run.selectedTask) # <<>>
                      /\ run.selectedModel = NoSelection
    IN
    /\ run.stage = "models"
    /\ pipelineModels' = organizedModels
    /\ sidebarModel' = IF setDefault
                       THEN Lookup(organizedModels, run.selectedTask)[1].id
                       ELSE sidebarModel
    /\ isLoadingModels' = FALSE
    /\ IF run.caller = "verifyApiKey"
       THEN /\ isApiVerified' = TRUE
            /\ sessionStorage' = [hf_api_key |-> <<run.token>>,
                                  hf_api_verified |-> <<"true">>]
            /\ isVerifying' = FALSE
       ELSE UNCHANGED <<isApiVerified, sessionStorage, isVerifying>>
    /\ verifying' = RemoveAt(verifying, k)
    /\ UNCHANGED <<apiKey, selectedTask, listing, cardVars>>
    /\ NotifyParent(parent)
    /\ UpdateModelInfo(selectedModelInfo)
    /\ UNCHANGED chatVars

\* the listing fails: status not ok, or the fetch throws
ModelsFails(k) ==
    LET run == verifying[k] IN
    /\ run.stage = "models"
    /\ pipelineModels' = EmptyCatalog
    /\ isLoadingModels' = FALSE
    /\ IF run.caller = "verifyApiKey"
       THEN /\ isApiVerified' = FALSE
            /\ isVerifying' = FALSE
       ELSE UNCHANGED <<isApiVerified, isVerifying>>
    /\ verifying' = RemoveAt(verifying, k)
    /\ UNCHANGED <<apiKey, selectedTask, sidebarModel, sessionStorage, parent,
                   listing, cardVars>>
    /\ UpdateModelInfo(selectedModelInfo)
    /\ UNCHANGED chatVars

(***************************************************************************)
(* Sidebar.tsx: task and model selection, model detail.                    *)
(***************************************************************************)
\* the tasks the dropdown lists
OfferedTasks ==
    {TaskTypes[i] : i \in {j \in 1..Len(TaskTypes) :
                              Lookup(availableModels, TaskTypes[j]) # <<>>}}

handleTaskSelect(taskId) ==
    /\ taskId \in OfferedTasks
    /\ selectedTask' = taskId
    /\ sidebarModel' = IF Lookup(availableModels, taskId) = <<>>
                       THEN NoSelection
                       ELSE Lookup(availableModels, taskId)[1].id
    /\ NotifyParent(parent)
    /\ UNCHANGED <<apiKey, isApiVerified, isVerifying, pipelineModels,
                   isLoadingModels, sessionStorage, verifying, listing, cardVars>>
    /\ UpdateModelInfo(selectedModelInfo)
    /\ UNCHANGED chatVars

handleModelSelect(i) ==
    /\ i \in 1..Len(getCurrentModels)
    /\ sidebarModel' = getCurrentModels[i].id
    /\ UNCHANGED <<apiKey, isApiVerified, isVerifying, selectedTask,
                   pipelineModels, isLoadingModels, sessionStorage, verifying,
                   listing, cardVars>>
    /\ NotifyParent(parent)
    /\ UpdateModelInfo(selectedModelInfo)
    /\ UNCHANGED chatVars

(***************************************************************************)
(* Sidebar.tsx: parseModelCard.  Positions are 1-based; a regular          *)
(* expression is given by the end of its match at a position (0: no match) *)
(* and a replace-all that goes from match to match, left to right.         *)
(***************************************************************************)
MinOf(S) == CHOOSE x \in S : \A y \in S : x <= y

\* s.indexOf(p, from), 0-based, -1 when absent
IndexOf(s, p, from) ==
    LET hits == {i \in from..(Len(s) - Len(p)) : SubSeq(s, i + 1, i + Len(p)) = p}
    IN  IF hits = {} THEN 0 - 1 ELSE MinOf(hits)

\* the first position >= from that holds the character c, 0 when there is none
FirstChar(s, c, from) ==
    LET hits == {i \in from..Len(s) : s[i] = c}
    IN  IF hits = {} THEN 0 ELSE MinOf(hits)

\* p is at position i of s
At(s, i, p) == i >= 1 /\ i + Len(p) - 1 <= Len(s) /\ SubSeq(s, i, i + Len(p) - 1) = p

\* the last position of the run of characters c that starts at i
RunEnd(s, c, i) ==
    LET stops == {j \in i..Len(s) : s[j] # c}
    IN  IF stops = {} THEN Len(s) ELSE MinOf(stops) - 1

\* "Remove YAML frontmatter if present"
StripFrontmatter(markdownText) ==
    IF StartsWith(markdownText, <<"-", "-", "-">>)
    THEN LET endFrontmatter == IndexOf(markdownText, <<"\n", "-", "-", "-">>, 3)
         IN  IF endFrontmatter # 0 - 1
             THEN SubSeq(markdownText, endFrontmatter + 4 + 1, Len(markdownText))
             ELSE markdownText
    ELSE markdownText

\* /<div[^>]*>.*?<\/div>/gs
DivEnd(s, i) ==
    IF ~At(s, i, <<"<", "d", "i", "v">>) THEN 0
    ELSE LET gt == FirstChar(s, ">", i + 4)
         IN  IF gt = 0 THEN 0
             ELSE LET close == IndexOf(s, <<"<", "/", "d", "i", "v", ">">>, gt)
                  IN  IF close = 0 - 1 THEN 0 ELSE close + 6

\* /<[^>]+>/g
TagEnd(s, i) ==
    IF ~At(s, i, <<"<">>) THEN 0
    ELSE LET gt == FirstChar(s, ">", i + 1)
         IN  IF gt >= i + 2 THEN gt ELSE 0

\* /\[[^\]]*\]\([^)]+\)/g
LinkEnd(s, i) ==
    IF ~At(s, i, <<"[">>) THEN 0
    ELSE LET close == FirstChar(s, "]", i + 1)
         IN  IF close = 0 \/ ~At(s, close + 1, <<"(">>) THEN 0
             ELSE LET paren == FirstChar(s, ")", close + 2)
                  IN  IF paren >= close + 3 THEN paren ELSE 0

\* /!\[[^\]]*\]\([^)]+\)/g
ImageEnd(s, i) == IF At(s, i, <<"!">>) THEN LinkEnd(s, i + 1) ELSE 0

\* /---+/g
RuleEnd(s, i) == IF At(s, i, <<"-", "-", "-">>) THEN RunEnd(s, "-", i) ELSE 0

\* /\n{3,}/g
BlankRunEnd(s, i) ==
    IF At(s, i, <<"\n", "\n", "\n">>) THEN RunEnd(s, "\n", i) ELSE 0

\* the end of the match of the regular expression `re` at position i
MatchEnd(re, s, i) ==
    CASE re = "div" -> DivEnd(s, i)
      [] re = "tag" -> TagEnd(s, i)
      [] re = "image" -> ImageEnd(s, i)
      [] re = "link" -> LinkEnd(s, i)
      [] re = "rule" -> RuleEnd(s, i)
      [] re = "blank" -> BlankRunEnd(s, i)

\* s.replace(re, by) with the g flag, from position `from` on
RECURSIVE ReplaceAll(_, _, _, _)
ReplaceAll(re, s, by, from) ==
    LET starts == {i \in from..Len(s) : MatchEnd(re, s, i) # 0}
    IN  IF starts = {} THEN SubSeq(s, from, Len(s))
        ELSE LET i == MinOf(starts)
             IN  SubSeq(s, from, i - 1) \o by
                 \o ReplaceAll(re, s, by, MatchEnd(re, s, i) + 1)

\* "Remove all badge images and HTML tags for the description"
CleanDescription(content) ==
    LET noDiv == ReplaceAll("div", content, <<>>, 1)
        noTag == ReplaceAll("tag", noDiv, <<>>, 1)
        noImage == ReplaceAll("image", noTag, <<>>, 1)
        noLink == ReplaceAll("link", noImage, <<>>, 1)
        noRule == ReplaceAll("rule", noLink, <<>>, 1)
        collapsed == ReplaceAll("blank", noRule, <<"\n", "\n">>, 1)
    IN  Trim(collapsed)

\* s.split("\n")
RECURSIVE Split(_)
Split(s) ==
    LET nl == FirstChar(s, "\n", 1)
    IN  IF nl = 0 THEN <<s>>
        ELSE <<SubSeq(s, 1, nl - 1)>> \o Split(SubSeq(s, nl + 1, Len(s)))

\* lines.join("\n")
RECURSIVE Join(_)
Join(lines) ==
    IF lines = <<>> THEN <<>>
    ELSE IF Len(lines) = 1 THEN lines[1]
    ELSE lines[1] \o <<"\n">> \o Join(Tail(lines))


\* lines with "badge", "shields.io" or "<img" are skipped
BadgeWords ==
    {<<"b", "a", "d", "g", "e">>,
     <<"s", "h", "i", "e", "l", "d", "s", ".", "i", "o">>,
     <<"<", "i", "m", "g">>}

\* the for loop over the lines: "content before the first major heading"
RECURSIVE DescriptionLines(_, _, _)
DescriptionLines(lines, i, descriptionLines) ==
    IF i > Len(lines) THEN descriptionLines
    ELSE LET line == lines[i]
         IN  IF /\ \/ StartsWith(line, <<"#", " ">>)
                   \/ StartsWith(line, <<"#", "#", " ">>)
                /\ descriptionLines # <<>>
             THEN descriptionLines
             ELSE IF Trim(line) = <<>> /\ descriptionLines = <<>>
             THEN DescriptionLines(lines, i + 1, descriptionLines)
             ELSE IF \E word \in BadgeWords : Includes(line, word)
             THEN DescriptionLines(lines, i + 1, descriptionLines)
             ELSE DescriptionLines(lines, i + 1, Append(descriptionLines, line))

MinDescription == 50
MaxDescription == 1000

\* a faulty variant: a short description is kept as it is
FullDescription_ShortKept(content) ==
    LET kept == SelectSeq(DescriptionLines(Split(content), 1, <<>>),
                          LAMBDA line : /\ ~Includes(line, <<"!", "[">>)
                                        /\ ~Includes(line, <<"<">>))
        joined == Trim(Join(kept))
    IN  IF joined = <<>>
        THEN Substring(CleanDescription(content), 0, MaxDescription)
        ELSE joined

\* result.fullDescription
FullDescription(content) ==
    LET kept == SelectSeq(DescriptionLines(Split(content), 1, <<>>),
                          LAMBDA line : /\ ~Includes(line, <<"!", "[">>)
                                        /\ ~Includes(line, <<"<">>))
        joined == Trim(Join(kept))
    IN  IF joined = <<>> \/ Len(joined) < MinDescription
        THEN Substring(CleanDescription(content), 0, MaxDescription)
        ELSE joined

\* the /i flag
Lower(c) ==
    LET UpperCase == <<"A", "B", "C", "D", "E", "F", "G", "H", "I", "J", "K",
                       "L", "M", "N", "O", "P", "Q", "R", "S", "T", "U", "V",
                       "W", "X", "Y", "Z">>
        LowerCase == <<"a", "b", "c", "d", "e", "f", "g", "h", "i", "j", "k",
                       "l", "m", "n", "o", "p", "q", "r", "s", "t", "u", "v",
                       "w", "x", "y", "z">>
    IN  IF \E n \in 1..26 : UpperCase[n] = c
        THEN LowerCase[CHOOSE n \in 1..26 : UpperCase[n] = c]
        ELSE c
ToLower(s) == [i \in 1..Len(s) |-> Lower(s[i])]

\* (?=##\s+|$) holds at position q
SectionStop(s, q) ==
    \/ q = Len(s) + 1
    \/ At(s, q, <<"#", "#">>) /\ q + 2 <= Len(s) /\ IsSpace(s[q + 2])

\* ##\s+<title> at position i, case-insensitively: the position after it, or 0
TitleEnd(s, i, title) ==
    IF ~At(s, i, <<"#", "#">>) THEN 0
    ELSE LET stops == {j \in (i + 2)..Len(s) : ~IsSpace(s[j])}
             word == IF stops = {} THEN Len(s) + 1 ELSE MinOf(stops)
         IN  IF /\ word >= i + 3
                /\ word + Len(title) - 1 <= Len(s)
                /\ ToLower(SubSeq(s, word, word + Len(title) - 1)) = title
             THEN word + Len(title)
             ELSE 0

\* the alternation (?:##\s+A|##\s+B|##\s+C) at position i: the first
\* alternative that matches decides
HeadEnd(s, i, titles) ==
    LET hits == {n \in 1..Len(titles) : TitleEnd(s, i, titles[n]) # 0}
    IN  IF hits = {} THEN 0 ELSE TitleEnd(s, i, titles[MinOf(hits)])

\* content.match(/(?:...)([\s\S]*?)(?=##\s+|$)/i): <<>> (null), or
\* <<capture group 1>> of the leftmost match
SectionMatch(content, titles) ==
    LET starts == {i \in 1..Len(content) : HeadEnd(content, i, titles) # 0}
    IN  IF starts = {} THEN <<>>
        ELSE LET from == HeadEnd(content, MinOf(starts), titles)
                 stop == MinOf({q \in from..(Len(content) + 1) :
                                   SectionStop(content, q)})
             IN  <<SubSeq(content, from, stop - 1)>>

\* `if (m && m[1]) result.field = m[1].trim()`: <<>> (unset) or <<the text>>
SectionField(content, titles) ==
    LET m == SectionMatch(content, titles)
    IN  IF m # <<>> /\ m[1] # <<>> THEN <<Trim(m[1])>> ELSE <<>>

UsageTitles ==
    <<<<"u", "s", "a", "g", "e">>,
      <<"h", "o", "w", " ", "t", "o", " ", "u", "s", "e">>,
      <<"e", "x", "a", "m", "p", "l", "e", "s">>>>
LimitationsTitles ==
    <<<<"l", "i", "m", "i", "t", "a", "t", "i", "o", "n", "s">>,
      <<"l", "i", "m", "i", "t", "a", "t", "i", "o", "n", "s", " ",
        "a", "n", "d", " ", "b", "i", "a", "s">>,
      <<"b", "i", "a", "s">>>>
TrainingTitles ==
    <<<<"t", "r", "a", "i", "n", "i", "n", "g">>,
      <<"t", "r", "a", "i", "n", "i", "n", "g", " ", "d", "a", "t", "a">>,
      <<"m", "o", "d", "e", "l", " ", "d", "e", "t", "a", "i", "l", "s">>>>

parseModelCard(markdownText) ==
    LET content == StripFrontmatter(markdownText)
    IN  [fullDescription |-> FullDescription(content),
         sections |-> <<>>,
         usage |-> SectionField(content, UsageTitles),
         limitations |-> SectionField(content, LimitationsTitles),
         trainingData |-> SectionField(content, TrainingTitles)]

\* the README texts: up to MaxFragments pieces put end to end, and two texts
\* written out
Filler == [i \in 1..MinDescription |-> "x"]
CardFragments ==
    {<<"-", "-", "-", "\n", "y", "\n">>,
     <<"-", "-", "-", "\n">>,
     <<"-", "-", "-", "-", "\n">>,
     <<"-", "-", "-", " ", "t", "\n">>,
     <<"b", "\n">>,
     <<"#", "#", " ", "U", "s", "a", "g", "e", "\n">>,
     <<"D", "o", " ", "X", ".", "\n">>,
     <<"s", "e", "e", " ", "#", "#", " ", "u", "s", "a", "g", "e", " ",
       "n", "o", "w", "\n">>,
     <<"<", "b", ">", "k", "<", "/", "b", ">", "\n">>,
     <<"#", "#", "#", " ", "S", "u", "b", "\n">>,
     Filler \o <<"\n">>}
RECURSIVE CardTextsOf(_)
CardTextsOf(n) ==
    IF n = 0 THEN {<<>>}
    ELSE LET shorter == CardTextsOf(n - 1)
         IN  shorter \cup {t \o f : t \in shorter, f \in CardFragments}
UsageExample ==
    <<"#", "#", " ", "U", "s", "a", "g", "e", "\n", "D", "o", " ", "X", ".",
      "\n", "#", "#", " ", "L", "i", "m", "i", "t", "a", "t", "i", "o", "n",
      "s", "\n", "Y">>
LongCard == <<"b", "a", "d", "g", "e">> \o [i \in 1..(MaxDescription + 1) |-> "x"]
CardTexts == CardTextsOf(MaxFragments) \cup {UsageExample, LongCard}

\* fetchModelInfo: the README answered ok and its text is parsed
CardParsed ==
    /\ rawCardText # <<>>
    /\ cardData = <<>>
    /\ cardData' = <<parseModelCard(rawCardText[1])>>
    /\ UNCHANGED <<apiKey, isApiVerified, isVerifying, selectedTask,
                   sidebarModel, pipelineModels, isLoadingModels,
                   selectedModelInfo, isFetchingModelInfo, sessionStorage,
                   parent, verifying, infoFetches, listing, rawCardText,
                   chatVars>>

(***************************************************************************)
(* Sidebar.tsx: fetchModelInfo after the model GET.                        *)
(***************************************************************************)
\* the body of the model GET: the id and, of its cardData, a usage text
ModelData(modelId) ==
    [id |-> modelId, usage |-> <<<<"m", "e", "t", "a">>>>, limitations |-> <<>>,
     training_data |-> <<>>, content |-> <<>>]

\* the README request: <<>> when it fails (status not ok, or fetch throws),
\* <<text>> when it answers; and parseModelCard of each text
Readmes == {<<>>, <<UsageExample>>}
ParsedReadmes == [readme \in Readmes \ {<<>>} |-> parseModelCard(readme[1])]

\* a faulty variant: without a card there is no detail
ModelInfo_NullWithoutCard(modelData, readme) ==
    IF readme = <<>> THEN NoInfo
    ELSE <<[id |-> modelData.id, rawCardText |-> readme[1],
            fullDescription |-> <<ParsedReadmes[readme].fullDescription>>,
            usage |-> ParsedReadmes[readme].usage,
            limitations |-> ParsedReadmes[readme].limitations,
            trainingData |-> ParsedReadmes[readme].trainingData]>>

\* what fetchModelInfo returns when the model GET succeeds: the modelInfo
\* object, of which the fields that read the card are kept (a || b is a
\* unless a is absent or empty)
ModelInfo(modelData, readme) ==
    LET Or(a, b) == IF a # <<>> /\ a[1] # <<>> THEN a ELSE b
        Build(card) ==
            <<[id |-> modelData.id,
               rawCardText |-> IF readme = <<>> THEN <<>> ELSE readme[1],
               fullDescription |->
                   Or(IF card = <<>> THEN <<>> ELSE <<card[1].fullDescription>>,
                      modelData.content),
               usage |->
                   Or(IF card = <<>> THEN <<>> ELSE card[1].usage,
                      modelData.usage),
               limitations |->
                   Or(IF card = <<>> THEN <<>> ELSE card[1].limitations,
                      modelData.limitations),
               trainingData |->
                   Or(IF card = <<>> THEN <<>> ELSE card[1].trainingData,
                      modelData.training_data)]>>
    IN  Build(IF readme = <<>> THEN <<>> ELSE <<ParsedReadmes[readme]>>)

\* fetchModelInfo resumes: the model GET answered, and the README request
\* answered or failed
ModelInfoOk(k, readme) ==
    /\ k \in 1..Len(infoFetches)
    /\ selectedModelInfo' = ModelInfo(ModelData(infoFetches[k]), readme)
    /\ isFetchingModelInfo' = FALSE
    /\ infoFetches' = RemoveAt(infoFetches, k)
    /\ UNCHANGED <<apiKey, isApiVerified, isVerifying, selectedTask,
                   sidebarModel, pipelineModels, isLoadingModels,
                   sessionStorage, parent, verifying, listing, cardVars, chatVars>>

\* fetchModelInfo resumes: the model GET failed
ModelInfoFails(k) ==
    /\ k \in 1..Len(infoFetches)
    /\ selectedModelInfo' = NoInfo
    /\ isFetchingModelInfo' = FALSE
    /\ infoFetches' = RemoveAt(infoFetches, k)
    /\ UNCHANGED <<apiKey, isApiVerified, isVerifying, selectedTask,
                   sidebarModel, pipelineModels, isLoadingModels,
                   sessionStorage, parent, verifying, listing, cardVars, chatVars>>

\* the parent before any callback
InitialParent ==
    [verified |-> FALSE, model |-> NoSelection, pipeline |-> "text-generation"]

(***************************************************************************)
(* The chat page: initial state and next-state relation.                   *)
(***************************************************************************)
ChatInit ==
    /\ messages = <<Message(1, WelcomeText, FALSE)>>
    /\ inputMessage = <<>>
    /\ isLoading = FALSE
    /\ selectedImage = <<>>
    /\ imagePreview = NoUrl
    /\ isVerified = FALSE
    /\ selectedModel = NoModel
    /\ selectedPipeline = NoPipeline
    /\ inflight = <<>>
    /\ nextUrl = 1
    /\ revoked = {}

SidebarInit ==
    /\ apiKey = <<>>
    /\ isApiVerified = FALSE
    /\ isVerifying = FALSE
    /\ selectedTask = "text-generation"
    /\ sidebarModel = NoSelection
    /\ pipelineModels = EmptyCatalog
    /\ isLoadingModels = FALSE
    /\ selectedModelInfo = NoInfo
    /\ isFetchingModelInfo = FALSE
    /\ sessionStorage = NoStorage
    /\ parent = InitialParent
    /\ verifying = <<>>
    /\ infoFetches = <<>>
    /\ listing = <<>>
    /\ rawCardText = <<>>
    /\ cardData = <<>>

Init == ChatInit /\ SidebarInit

Next ==
    \/ \E v \in BOOLEAN : SetVerified(v)
    \/ \E m \in Models : SetSelectedModel(m)
    \/ \E p \in Pipelines : SetSelectedPipeline(p)
    \/ \E s \in Inputs : SetInputMessage(s)
    \/ handleSendMessage
    \/ \E k \in 1..Len(inflight) : BlobHandlerSucceeds(k)
    \/ \E k \in 1..Len(inflight), r \in ClassificationResults :
           TextClassificationSucceeds(k, r)
    \/ \E k \in 1..Len(inflight), t \in Summaries : SummarizationSucceeds(k, t)
    \/ \E k \in 1..Len(inflight), e \in Errors : PipelineHandlerFails(k, e)
    \/ \E k \in 1..Len(inflight), c \in BOOLEAN, t \in ChunkContents :
           StreamChunk(k, c, t)
    \/ \E k \in 1..Len(inflight) : StreamEnds(k)
    \/ \E k \in 1..Len(inflight), e \in Errors : StreamFails(k, e)
    \/ \E k \in 1..Len(inflight), r \in ClassificationResults :
           ImageClassificationSucceeds(k, r)
    \/ \E k \in 1..Len(inflight), e \in Errors : ImageClassificationFails(k, e)
    \/ \E f \in Files : handleImageSelect(f)
    \/ clearSelectedImage

Spec == Init /\ [][Next]_vars

\* React tears the page down: the cleanup of the effect runs a last time,
\* the state is gone and what a suspended handler would still set is
\* ignored; a page mounted afterwards starts from its initial state, with
\* the props of the parent and the object URLs of the document as they are
Unmount ==
    /\ revoked' = revoked \cup EffectCleanup
    /\ messages' = <<Message(1, WelcomeText, FALSE)>>
    /\ inputMessage' = <<>>
    /\ isLoading' = FALSE
    /\ selectedImage' = <<>>
    /\ imagePreview' = NoUrl
    /\ inflight' = <<>>
    /\ UNCHANGED <<isVerified, selectedModel, selectedPipeline, nextUrl,
                   sideVars>>

ResourceSpec == Init /\ [][Next \/ Unmount]_vars

(***************************************************************************)
(* The sidebar: next-state relation.                                       *)
(***************************************************************************)
SidebarNext ==
    \/ \E t \in KeyTexts : handleApiKeyChange(t)
    \/ verifyApiKey
    \/ \E k \in 1..Len(verifying) : WhoamiOk(k)
    \/ \E k \in 1..Len(verifying) : WhoamiFails(k)
    \/ \E k \in 1..Len(verifying), r \in Listings : ModelsOk(k, r)
    \/ \E k \in 1..Len(verifying) : ModelsFails(k)
    \/ \E i \in 1..Len(TaskTypes) : handleTaskSelect(TaskTypes[i])
    \/ \E i \in 1..MaxListing : handleModelSelect(i)
    \/ \E k \in 1..Len(infoFetches), r \in Readmes : ModelInfoOk(k, r)
    \/ \E k \in 1..Len(infoFetches) : ModelInfoFails(k)

SidebarSpec == Init /\ [][SidebarNext]_vars

(***************************************************************************)
(* fetchHuggingFaceModels on its own: a run of verifyApiKey is suspended   *)
(* on the listing fetch, whose response body (any of the wider listings)   *)
(* is in flight.                                                           *)
(***************************************************************************)
ListingInit ==
    /\ ChatInit
    /\ apiKey = Key1
    /\ isApiVerified = FALSE
    /\ isVerifying = TRUE
    /\ selectedTask = "text-generation"
    /\ sidebarModel = NoSelection
    /\ pipelineModels = EmptyCatalog
    /\ isLoadingModels = TRUE
    /\ selectedModelInfo = NoInfo
    /\ isFetchingModelInfo = FALSE
    /\ sessionStorage = NoStorage
    /\ parent = [InitialParent EXCEPT !.verified = TRUE, !.pipeline = selectedTask]
    /\ verifying = <<[stage |-> "models", caller |-> "verifyApiKey",
                      token |-> Key1, isApiVerified |-> FALSE,
                      selectedTask |-> selectedTask,
                      selectedModel |-> NoSelection]>>
    /\ infoFetches = <<>>
    /\ listing \in {<<r>> : r \in WideListings}
    /\ rawCardText = <<>>
    /\ cardData = <<>>

ListingNext ==
    \/ \E k \in 1..Len(verifying) : ModelsOk(k, listing[1])
    \/ \E k \in 1..Len(verifying) : ModelsFails(k)

ListingSpec == ListingInit /\ [][ListingNext]_vars

(***************************************************************************)
(* parseModelCard alone: a README text has arrived and is parsed.          *)
(***************************************************************************)
ExtractorInit ==
    /\ ChatInit
    /\ apiKey = Key1
    /\ isApiVerified = TRUE
    /\ isVerifying = FALSE
    /\ selectedTask = "text-generation"
    /\ sidebarModel = "a"
    /\ pipelineModels = Organize(<<[id |-> "a", pipeline_tag |-> "text-generation"]>>,
                                 EmptyCatalog)
    /\ isLoadingModels = FALSE
    /\ selectedModelInfo = NoInfo
    /\ isFetchingModelInfo = TRUE
    /\ sessionStorage = [hf_api_key |-> <<Key1>>, hf_api_verified |-> <<"true">>]
    /\ parent = [verified |-> TRUE, model |-> "a", pipeline |-> "text-generation"]
    /\ verifying = <<>>
    /\ infoFetches = <<"a">>
    /\ listing = <<>>
    /\ rawCardText \in {<<t>> : t \in CardTexts}
    /\ cardData = <<>>


ExtractorSpec == ExtractorInit /\ [][CardParsed]_vars

(***************************************************************************)
(* Claims about the chat page (specification Spec).                        *)
(***************************************************************************)
Ids(msgs) == [i \in 1..Len(msgs) |-> msgs[i].id]

\* a handler's inference call is rejected with the error e
HandlerFails(k, e) ==
    \/ PipelineHandlerFails(k, e)
    \/ StreamFails(k, e)
    \/ ImageClassificationFails(k, e)

\* the text of the entries of msgs that carry the identifier id
TextsOf(msgs, id) == {msgs[i].text : i \in {j \in 1..Len(msgs) : msgs[j].id = id}}

\* C1: after any sequence of sequential submissions, accepted or rejected,
\* no two entries of the transcript have the same identifier.
C1_UniqueIdentifiers ==
    \A i, j \in 1..Len(messages) : i # j => messages[i].id # messages[j].id

\* C2: an inference call is issued only with a verified credential and a
\* selected model; and under every task tag but image-classification a
\* submission with an unverified credential, no model, no task tag or blank
\* input leaves the transcript as it was.
C2_GuardedSubmit ==
    [][/\ Len(inflight') > Len(inflight)
            => isVerified /\ selectedModel # NoModel
       /\ ( /\ handleSendMessage
            /\ selectedPipeline # "image-classification"
            /\ \/ ~isVerified
               \/ selectedModel = NoModel
               \/ selectedPipeline = NoPipeline
               \/ \A i \in 1..Len(inputMessage) : IsSpace(inputMessage[i]) )
            => messages' = messages]_vars

\* a submission that the guard turns away is possible: non-blank input typed
\* while verified, then the credential is no longer verified
C2_Witness ==
    /\ ~isVerified
    /\ selectedModel # NoModel
    /\ selectedPipeline = "text-generation"
    /\ inputMessage = Hi
    /\ ~isLoading

\* C3: a submission with a verified credential, a model, non-blank input and
\* a task tag outside the six supported ones adds exactly one entry, which is
\* assistant-authored, and issues no inference call.
C3_UnsupportedTag ==
    [][( /\ handleSendMessage
         /\ isVerified
         /\ selectedModel # NoModel
         /\ \E i \in 1..Len(inputMessage) : ~IsSpace(inputMessage[i])
         /\ selectedPipeline \notin SupportedPipelines \cup {NoPipeline} )
        => /\ Len(messages') = Len(messages) + 1
           /\ SubSeq(messages', 1, Len(messages)) = messages
           /\ ~messages'[Len(messages')].isUser
           /\ inflight' = inflight]_vars

\* the explanatory entry is in the transcript and nothing is in flight
C3_Witness ==
    /\ messages[Len(messages)].text = UnsupportedText
    /\ ~messages[Len(messages)].isUser
    /\ selectedPipeline = "translation"
    /\ inflight = <<>>

\* C4: a submission under image-classification with no image selected adds
\* exactly one entry, which is assistant-authored, and issues no inference
\* call.
C4_ImageRequired ==
    [][( /\ handleSendMessage
         /\ selectedPipeline = "image-classification"
         /\ selectedImage = <<>> )
        => /\ Len(messages') = Len(messages) + 1
           /\ SubSeq(messages', 1, Len(messages)) = messages
           /\ ~messages'[Len(messages')].isUser
           /\ inflight' = inflight]_vars

\* the request for an image is in the transcript and nothing is in flight
C4_Witness ==
    /\ messages[Len(messages)].text = SelectImageText
    /\ ~messages[Len(messages)].isUser
    /\ selectedPipeline = "image-classification"
    /\ selectedImage = <<>>
    /\ inflight = <<>>

\* C5: in every handler, an inference call that fails with an error whose
\* message contains "Subscribe to PRO" turns the text of the dispatch's
\* assistant entry into the credits-exceeded message, whatever else the
\* message contains.
C5_SubscribeToPro ==
    [][\A k \in 1..Len(inflight), e \in Errors :
          ( /\ HandlerFails(k, e)
            /\ Includes(getErrorMessage(e), SubscribeToPro) )
          => TextsOf(messages', inflight[k].botId) = {CreditsText}]_vars

\* a failed dispatch whose entry carries the credits-exceeded message
C5_Witness ==
    /\ inflight = <<>>
    /\ Len(messages) >= 3
    /\ messages[Len(messages)].text = CreditsText
    /\ messages[Len(messages) - 1].isUser

\* the generic text of each handler
GenericTextOf(kind) ==
    CASE kind = "text-generation" ->
            <<"Sorry, I encountered an error while processing your request. Please try again.">>
      [] kind = "image-classification" ->
            <<"Sorry, I encountered an error while analyzing the image. Please try again.">>
      [] kind = "text-to-image" ->
            <<"Sorry, I encountered an error while ", "generating the image",
              ". Please try again.">>
      [] kind = "text-classification" ->
            <<"Sorry, I encountered an error while ", "analyzing the text",
              ". Please try again.">>
      [] kind = "summarization" ->
            <<"Sorry, I encountered an error while ", "summarizing the text",
              ". Please try again.">>
      [] kind = "text-to-speech" ->
            <<"Sorry, I encountered an error while ", "generating speech",
              ". Please try again.">>

NoCreditSignature(text) ==
    ~Includes(text, SubscribeToPro) /\ ~Includes(text, ExceededCredits)

\* C6 as stated: in every handler, a failure whose message contains neither
\* credit-exhaustion substring turns the text of the dispatch's assistant
\* entry into that handler's generic "error while <doing X>" message.
C6_GenericAlways ==
    [][\A k \in 1..Len(inflight), e \in Errors :
          ( HandlerFails(k, e) /\ NoCreditSignature(getErrorMessage(e)) )
          => TextsOf(messages', inflight[k].botId)
                 = {GenericTextOf(inflight[k].kind)}]_vars

\* C6 as amended: the generic message, except that in the four handlers
\* that report through handlePipelineError a message containing "speech"
\* yields "Text-to-speech error: " and the first line of the message (the
\* whole message if that line is empty), cut to 100 characters.
C6_GenericUnlessSpeech ==
    [][\A k \in 1..Len(inflight), e \in Errors :
          ( HandlerFails(k, e) /\ NoCreditSignature(getErrorMessage(e)) )
          => LET text == getErrorMessage(e)
                 line == IF FirstLine(text) = <<>> THEN text ELSE FirstLine(text)
             IN  TextsOf(messages', inflight[k].botId) =
                 IF inflight[k].kind \in PipelineKinds /\ Includes(text, SpeechWord)
                 THEN {<<"Text-to-speech error: ">> \o SubSeq(line, 1, Min(100, Len(line)))
                       \o (IF Len(line) > 100 THEN <<"...">> ELSE <<>>)}
                 ELSE {GenericTextOf(inflight[k].kind)}]_vars

\* a failed summarization whose entry carries the generic text
C6_Witness ==
    /\ inflight = <<>>
    /\ Len(messages) >= 3
    /\ messages[Len(messages)].text = GenericTextOf("summarization")
    /\ messages[Len(messages) - 1].isUser

\* C7: a failure after the placeholder was created changes the placeholder
\* in place: the transcript keeps its length and its order of identifiers,
\* exactly one entry has the placeholder's identifier, and that entry's
\* text is the error text; in all handlers, also text-generation failing
\* after chunks were applied.
C7_FailureInPlace ==
    [][\A k \in 1..Len(inflight), e \in Errors :
          HandlerFails(k, e)
          => /\ Len(messages') = Len(messages)
             /\ Ids(messages') = Ids(messages)
             /\ Cardinality({i \in 1..Len(messages') :
                                messages'[i].id = inflight[k].botId}) = 1
             /\ TextsOf(messages', inflight[k].botId)
                    = {ErrorTextOf(inflight[k].kind, e)}]_vars

\* C8: when the credential text changes while the sidebar is verified, the
\* same step sets the verified flag to false, empties the model catalog and
\* clears the selected model and its detail, and starts no request.
C8_KeyChangeResets ==
    [][(apiKey' # apiKey /\ isApiVerified)
          => /\ ~isApiVerified'
             /\ pipelineModels' = EmptyCatalog
             /\ sidebarModel' = NoSelection
             /\ selectedModelInfo' = NoInfo
             /\ verifying' = verifying
             /\ infoFetches' = infoFetches]_vars

\* a sidebar whose stored credential was verified and whose credential text
\* was edited afterwards
C8_Witness ==
    /\ ~isApiVerified
    /\ apiKey # <<>>
    /\ sessionStorage.hf_api_key # <<>>
    /\ sessionStorage.hf_api_key # <<apiKey>>
    /\ pipelineModels = EmptyCatalog
    /\ sidebarModel = NoSelection
    /\ verifying = <<>>

\* C9: after any failed verification attempt, whichever request failed, the
\* verified flag is false and sessionStorage holds neither the credential
\* nor the verified flag.
C9_FailedVerifyClears ==
    [][(\E k \in 1..Len(verifying) : WhoamiFails(k) \/ ModelsFails(k))
          => /\ ~isApiVerified'
             /\ sessionStorage' = NoStorage]_vars

\* C10: after a successful verification, each task tag of the catalog maps
\* to the models of the listing response that carry that tag, in the order
\* of the response, and a model without a tag is in no group.
C10_GroupedInResponseOrder ==
    (verifying = <<>> /\ isApiVerified)
    => LET response == listing[1]
           IdsOf(models) == [i \in 1..Len(models) |-> models[i].id]
           Tagged(t) == SelectSeq(response, LAMBDA m : m.pipeline_tag = t)
       IN  /\ NoTag \notin DOMAIN pipelineModels
           /\ \A t \in ListingTags \ {NoTag} :
                 IdsOf(Lookup(pipelineModels, t)) = IdsOf(Tagged(t))
           /\ \A t \in DOMAIN pipelineModels : Tagged(t) # <<>>
           /\ \A i \in 1..Len(response) :
                 response[i].pipeline_tag = NoTag
                 => \A t \in DOMAIN pipelineModels :
                       \A j \in 1..Len(pipelineModels[t]) :
                          pipelineModels[t][j].id # response[i].id

\* a response with two models of one tag around an untagged one, grouped
C10_Witness ==
    /\ verifying = <<>>
    /\ isApiVerified
    /\ Len(listing[1]) = 3
    /\ listing[1][1].pipeline_tag = "text-generation"
    /\ listing[1][2].pipeline_tag = NoTag
    /\ listing[1][3].pipeline_tag = "text-generation"
    /\ listing[1][1].id # listing[1][3].id
    /\ Len(Lookup(pipelineModels, "text-generation")) = 2
    /\ pipelineModels["text-generation"][1].id = listing[1][1].id
    /\ pipelineModels["text-generation"][2].id = listing[1][3].id

(***************************************************************************)
(* Claims about parseModelCard (specification ExtractorSpec).              *)
(***************************************************************************)
\* the text fields of a parsed card
CardFields(card) ==
    {card.fullDescription}
    \cup {card.usage[i] : i \in 1..Len(card.usage)}
    \cup {card.limitations[i] : i \in 1..Len(card.limitations)}
    \cup {card.trainingData[i] : i \in 1..Len(card.trainingData)}

\* a front-matter block is the opening delimiter line, a line of content and
\* a closing delimiter line; its characters other than the line ends occur
\* in no body
FrontmatterOpen == <<"-", "-", "-", "\n", "y", "\n">>
ClosingLines ==
    {<<"-", "-", "-", "\n">>,
     <<"-", "-", "-", "-", "\n">>,
     <<"-", "-", "-", " ", "t", "\n">>}
FrontmatterMarks == {"-", "y", "t"}
CardBodies ==
    {t \in CardTextsOf(MaxFragments - 2) :
        \A i \in 1..Len(t) : t[i] \notin FrontmatterMarks}

\* C11: for every README text that begins with a front-matter block, no
\* field of the parsed card contains anything of the delimiter lines or of
\* the front-matter content, also when the closing delimiter line has more
\* than three dashes or is followed by text on its line.
C11_FrontmatterDropped ==
    \A closing \in ClosingLines, body \in CardBodies :
       ( /\ rawCardText = <<FrontmatterOpen \o closing \o body>>
         /\ cardData # <<>> )
       => \A field \in CardFields(cardData[1]) :
             \A i \in 1..Len(field) : field[i] \notin FrontmatterMarks

\* a line that is a heading (of any level) and names one of the words
HasHeading(text, words) ==
    LET lines == Split(text)
    IN  \E n \in 1..Len(lines) :
           /\ StartsWith(lines[n], <<"#">>)
           /\ \E w \in words : Includes(ToLower(lines[n]), w)
UsageWords == {UsageTitles[n] : n \in 1..Len(UsageTitles)}

\* C12: for every README text without a "Usage" / "How to Use" / "Examples"
\* heading the parsed card has no usage, and for the text
\* "## Usage\nDo X.\n## Limitations\nY" usage is "Do X." and limitations
\* is "Y".
C12_UsageOnlyUnderHeading ==
    cardData # <<>>
    => /\ ~HasHeading(rawCardText[1], UsageWords) => cardData[1].usage = <<>>
       /\ rawCardText[1] = UsageExample
          => /\ cardData[1].usage = <<<<"D", "o", " ", "X", ".">>>>
             /\ cardData[1].limitations = <<<<"Y">>>>

\* C13: for every README text, a non-empty description of the parsed card
\* has at least 50 characters or is the first (at most 1000) characters of
\* the fallback text with HTML and markdown stripped.
C13_DescriptionLongOrFallback ==
    cardData # <<>>
    => LET description == cardData[1].fullDescription
           fallback == CleanDescription(StripFrontmatter(rawCardText[1]))
       IN  description # <<>>
           => \/ Len(description) >= 50
              \/ description = SubSeq(fallback, 1, Min(1000, Len(fallback)))

\* a text whose fallback is longer than 1000 characters has been parsed and
\* its description is the first 1000 of them
C13_Witness ==
    /\ rawCardText = <<LongCard>>
    /\ cardData # <<>>
    /\ Len(cardData[1].fullDescription) = 1000
    /\ Len(CleanDescription(rawCardText[1])) > 1000

(***************************************************************************)
(* Claims about the transcript's payloads (specification Spec).            *)
(***************************************************************************)
\* the list's first element has the highest score
FirstIsHighest(data) ==
    /\ data # <<>>
    /\ \A n \in 1..Len(data) : data[n].score <= data[1].score

\* the entries a text-classification success leaves under the placeholder's
\* identifier
Classified(k) ==
    {i \in 1..Len(messages') : messages'[i].id = inflight[k].botId}

\* C14 as stated: after a successful text-classification submission the
\* placeholder entry (same identifier) carries a label/score list ranked by
\* score, its first element the highest-scoring label, for every result of
\* the client.
C14_EntryHoldsRankedList ==
    [][\A k \in 1..Len(inflight), results \in ClassificationResults :
          TextClassificationSucceeds(k, results)
          => /\ Classified(k) # {}
             /\ \A i \in Classified(k) :
                   /\ messages'[i].classificationData # <<>>
                   /\ FirstIsHighest(messages'[i].classificationData[1])]_vars

\* C14 amended: after a successful text-classification submission the
\* placeholder entry (same identifier) carries the client's label/score list
\* in the order the client gave it, and the chart that shows the entry lists
\* it ranked by score, its first element the highest-scoring label.
C14_ChartRanksStoredList ==
    [][\A k \in 1..Len(inflight), results \in ClassificationResults :
          TextClassificationSucceeds(k, results)
          => /\ Classified(k) # {}
             /\ \A i \in Classified(k) :
                   /\ messages'[i].classificationData = <<results>>
                   /\ FirstIsHighest(sortedData(
                          messages'[i].classificationData[1]))
                   /\ sortedData(messages'[i].classificationData[1])[1].label
                        = "POSITIVE"]_vars

\* an entry holds a client result whose first element is not the highest
C14_Witness ==
    \E i \in 1..Len(messages) :
       /\ messages[i].classificationData # <<>>
       /\ ~FirstIsHighest(messages[i].classificationData[1])
       /\ FirstIsHighest(sortedData(messages[i].classificationData[1]))

\* C15: the transcript is append-only: across every operation (submit,
\* streaming chunk, finalization, every error path) its length never
\* decreases and every identifier once present stays present.
C15_AppendOnly ==
    [][/\ Len(messages') >= Len(messages)
       /\ \A i \in 1..Len(messages) :
             \E j \in 1..Len(messages') : messages'[j].id = messages[i].id]_vars

\* a stream has failed: its placeholder was filtered out and the error entry
\* appended under the same identifier
C15_Witness ==
    /\ Len(messages) >= 3
    /\ messages[Len(messages)].text \in {ProcessingErrorText, CreditsText}
    /\ ~messages[Len(messages)].isUser
    /\ inflight = <<>>

\* the kinds of result payload an entry holds
PayloadKinds(msg) ==
    {kind \in {"image", "audio", "text-classification", "image-classification"} :
        CASE kind = "image" -> msg.imageUrl # NoUrl
          [] kind = "audio" -> msg.audioUrl # NoUrl
          [] kind = "text-classification" -> msg.classificationData # <<>>
          [] kind = "image-classification" ->
                msg.imageClassificationData # <<>>}

\* C16: no entry of the transcript ever holds two kinds of result payload,
\* and once an entry holds a payload of one kind (image reference, audio
\* reference, text-classification list, image-classification list) no later
\* operation gives it a payload of a different kind.
C16_OnePayloadKind ==
    /\ [](\A i \in 1..Len(messages) :
             Cardinality(PayloadKinds(messages[i])) <= 1)
    /\ [][\A i \in 1..Len(messages) :
             PayloadKinds(messages[i]) # {}
             => /\ i <= Len(messages')
                /\ messages'[i].id = messages[i].id
                /\ PayloadKinds(messages'[i]) \subseteq
                       PayloadKinds(messages[i])]_vars

\* an entry held an image reference when a later operation attached an
\* image-classification list to the entry after it
C16_Witness ==
    \E i \in 1..(Len(messages) - 1) :
       /\ PayloadKinds(messages[i]) = {"image"}
       /\ PayloadKinds(messages[i + 1]) = {"image-classification"}

\* C17: within one text-generation stream the open assistant entry starts
\* empty, the k-th chunk extends its text by the chunk's content (a chunk
\* without choices by nothing), and no other step changes it while the
\* stream is open: after the k-th chunk the text is the concatenation of the
\* contents of chunks 1..k in arrival order.
C17_ChunksConcatenate ==
    [][/\ ( /\ handleSendMessage
            /\ Len(inflight') > Len(inflight)
            /\ inflight'[Len(inflight')].kind = "text-generation" )
          => TextsOf(messages', inflight'[Len(inflight')].botId) = {<<>>}
       /\ \A k \in 1..Len(inflight) :
             inflight[k].kind = "text-generation"
             => /\ \A hasChoices \in BOOLEAN, newContent \in ChunkContents :
                      StreamChunk(k, hasChoices, newContent)
                      => \E text \in TextsOf(messages, inflight[k].botId) :
                            TextsOf(messages', inflight[k].botId) =
                               {text \o (IF hasChoices THEN newContent
                                         ELSE <<>>)}
                /\ ( /\ Len(inflight') = Len(inflight)
                     /\ inflight'[k] = inflight[k] )
                   => TextsOf(messages', inflight[k].botId) =
                         TextsOf(messages, inflight[k].botId)]_vars

\* two chunks with different contents have been applied to the open entry
C17_Witness ==
    \E k \in 1..Len(inflight) :
       /\ inflight[k].kind = "text-generation"
       /\ inflight[k].chunks = 2
       /\ TextsOf(messages, inflight[k].botId) = {<<"b", "a">>}

(***************************************************************************)
(* Claims about object URLs (specification ResourceSpec).                  *)
(***************************************************************************)
\* the object URLs created so far
Created == 1..(nextUrl - 1)

\* C18: every object URL the page created (image preview, generated image,
\* generated audio) is released on every path that replaces or discards it:
\* a preview that is replaced or cleared has been revoked, and once the page
\* has been torn down no created URL remains unrevoked.
C18_AllReleased ==
    [][/\ (imagePreview # NoUrl /\ imagePreview' # imagePreview)
          => imagePreview \in revoked'
       /\ Unmount => Created \subseteq revoked']_vars

(***************************************************************************)
(* Claims about overlapping submissions (specification Spec).              *)
(***************************************************************************)
\* C19: at most one task dispatch is in flight at any time: while a dispatch
\* is pending the submit control and the text input (whose Enter key
\* submits) are disabled, for text tasks and image-classification alike.
C19_OneInFlight ==
    /\ Len(inflight) <= 1
    /\ inflight # <<>> => SubmitDisabled

\* an image-classification dispatch is pending while the image is still
\* selected: the guards of handleSendMessage would let a second submission
\* through, the disabled control alone keeps it out
C19_Witness ==
    /\ Len(inflight) = 1
    /\ inflight[1].kind = "image-classification"
    /\ selectedPipeline = "image-classification"
    /\ selectedImage # <<>>
    /\ ~ImageGuardFails
    /\ Len(messages) + 2 <= MaxMessages + 2 * Len(inflight)

(***************************************************************************)
(* Claims about the model detail (specification SidebarSpec).              *)
(***************************************************************************)
\* C20: whenever no detail fetch is in flight and the model detail is not
\* null, it is the detail of the currently selected model, also when the
\* selection or the credential changed while an earlier detail fetch was
\* still in flight.
C20_DetailOfSelectedModel ==
    (infoFetches = <<>> /\ selectedModelInfo # NoInfo)
    => selectedModelInfo[1].id = sidebarModel


(***************************************************************************)
(* Claims about the catalog (specification SidebarSpec).                   *)
(***************************************************************************)
\* the ids a catalog lists under a tag
CatalogIds(catalog, tag) ==
    {Lookup(catalog, tag)[n].id : n \in 1..Len(Lookup(catalog, tag))}

\* C21: the catalog is replaced, not merged, on every refresh: after a
\* successful listing it is the grouping of that response alone (its tags are
\* the tags of the response, and each tag lists the models of the response
\* with that tag and no other), and after a failed listing it is empty.
C21_CatalogReplaced ==
    [][Len(verifying') < Len(verifying)
       => /\ \A k \in 1..Len(verifying), models \in Listings :
                ModelsOk(k, models)
                => /\ DOMAIN pipelineModels' =
                         {models[i].pipeline_tag : i \in 1..Len(models)}
                            \ {NoTag}
                   /\ \A tag \in DOMAIN pipelineModels' :
                         CatalogIds(pipelineModels', tag) =
                            {models[i].id : i \in {j \in 1..Len(models) :
                                               models[j].pipeline_tag = tag}}
          /\ \A k \in 1..Len(verifying) :
                ModelsFails(k) => pipelineModels' = EmptyCatalog]_vars

\* a refresh has replaced the catalog the selected model came from: the
\* model is still selected and the catalog, not empty, lists it nowhere
C21_Witness ==
    /\ isApiVerified
    /\ verifying = <<>>
    /\ sidebarModel \in ModelIds
    /\ pipelineModels # EmptyCatalog
    /\ \A tag \in DOMAIN pipelineModels :
          sidebarModel \notin CatalogIds(pipelineModels, tag)


\* C22: whenever no verified credential exists, the catalog in effect is the
\* built-in default catalog: the task categories offered are those of the
\* default catalog, and every model offered for the selected task is a model
\* the default catalog lists for that task.
C22_DefaultCatalogInEffect ==
    ~isApiVerified
    => /\ OfferedTasks = DOMAIN getDefaultModels
       /\ \A n \in 1..Len(getCurrentModels) :
             getCurrentModels[n].id \in
                CatalogIds(getDefaultModels, selectedTask)


SectionLines ==
    {<<"b", "\n">>,
     <<"D", "o", " ", "X", ".", "\n">>,
     <<"#", "#", "#", " ", "S", "u", "b", "\n">>}
SectionBodies ==
    SectionLines \cup {a \o b : a \in SectionLines, b \in SectionLines}

\* C24: the text captured for a section runs from the matched heading to the
\* next level-2 heading or the end of the text: with no level-2 heading
\* after "## Usage", usage is all the text after the heading line, a level-3
\* sub-heading in it included.
C24_SubheadingInsideSection ==
    \A body \in SectionBodies :
       ( /\ rawCardText =
               <<<<"#", "#", " ", "U", "s", "a", "g", "e", "\n">> \o body>>
         /\ cardData # <<>> )
       => cardData[1].usage = <<Trim(body)>>


(***************************************************************************)
(* Claims about the chat page's providers, resources and loading flag.     *)
(***************************************************************************)
\* C25: a text-to-speech request goes to the alternate provider exactly when
\* the selected model is hexgrad/Kokoro-82M; every other model, one whose
\* identifier merely contains that identifier included, is requested with
\* automatic provider selection.
C25_KokoroOnlyReplicate ==
    [][ ( /\ Len(inflight') = Len(inflight) + 1
          /\ inflight'[Len(inflight')].kind = "text-to-speech" )
        => ( inflight'[Len(inflight')].provider = "replicate"
                <=> selectedModel = Kokoro ) ]_vars


\* the object URLs the visible state refers to: those attached to an entry
\* of the transcript and the preview of the selected image
VisibleUrls ==
    ( {messages[i].imageUrl : i \in 1..Len(messages)}
      \cup AudioUrls(messages) \cup {imagePreview} ) \ {NoUrl}

\* C26: no object URL attached to an entry of the transcript, and no preview
\* of the currently selected image, has been released: a URL is revoked only
\* once nothing in the visible state refers to it.
C26_VisibleNotReleased == VisibleUrls \cap revoked = {}


(***************************************************************************)
(* Claims about verification (specification SidebarSpec).                  *)
(***************************************************************************)
\* C27: whenever verified is true, the credential text in the input is the
\* credential that passed the verification which set the flag (the one that
\* verification stored as hf_api_key): an edit while a verification is in
\* flight cannot end with verified true for a text that was never verified.
C27_VerifiedTextWasVerified ==
    isApiVerified => sessionStorage.hf_api_key = <<apiKey>>


\* C28: whenever the credential is verified and a model is selected, the
\* selected model is one of the catalog's models for the selected task,
\* after any sequence of task selections, model selections, verifications
\* and credential edits.
C28_SelectedModelInCatalog ==
    (isApiVerified /\ sidebarModel # NoSelection)
    => sidebarModel \in CatalogIds(pipelineModels, selectedTask)


\* C29: a verify operation notifies the parent that the credential is
\* verified only in runs that end with the sidebar's verified flag true: a
\* run of verifyApiKey that has called onVerify (it started unverified and
\* its identity check succeeded) ends with isApiVerified true, so the parent
\* is not left verified beside an unverified sidebar.
C29_NotifiedRunsEndVerified ==
    [][\A k \in 1..Len(verifying) :
          ( /\ verifying[k].caller = "verifyApiKey"
            /\ verifying[k].stage = "models"
            /\ ~verifying[k].isApiVerified
            /\ Len(verifying') < Len(verifying)
            /\ verifying' = RemoveAt(verifying, k) )
          => (parent'.verified => isApiVerified')]_vars


\* C30: the loading flag tracks the dispatch: it is true exactly while a
\* handler is suspended on its network call, from the step that appends the
\* dispatch's user entry to the step in which the call resolves or rejects
\* (any of the six handlers); a submission that is rejected or does nothing
\* dispatches no handler and leaves the flag false.
C30_LoadingTracksDispatch == isLoading <=> inflight # <<>>

\* a dispatch has been made and its handler has finished: the user entry and
\* the reply are in the transcript and the flag is false again
C30_Witness ==
    /\ ~isLoading
    /\ inflight = <<>>
    /\ \E i \in 1..Len(messages) : messages[i].isUser

====
